---- MODULE Spec2Model ----
(***************************************************************************)
(* Brake-disc thermal simulation scripts.                                  *)
(*                                                                         *)
(*   - run_single_simulation (simulation_runner.py): one simulate-and-     *)
(*     measure cycle against an external MAPDL solver session;             *)
(*   - the timing harness (time_test.py) that calls it and reads the       *)
(*     returned record;                                                    *)
(*   - the single-instance script (ansys_test_run_vanes - Copy.py), the    *)
(*     same command sequence with an element-count check.                  *)
(*                                                                         *)
(* Every call into the solver binding is one step that either completes    *)
(* or raises.  Units: radii in mm, times in 1/100 s, angles in 1/1000      *)
(* degree, so that the source's decimal literals are integers.             *)
(***************************************************************************)
EXTENDS Integers, Sequences, FiniteSets, TLC

VARIABLES
    pc,               \* position of the driver / harness
    calls,            \* number of calls of run_single_simulation so far
    run_id,           \* argument run_id of the current call
    params,           \* argument params of the current call
    simulation_path,  \* local simulation_path
    input_png_path,   \* local input_png_path ("" before line 70)
    output_png_path,  \* local output_png_path ("" before line 99)
    dirs,             \* directories that exist on disk
    mapdl,            \* solver process of the current call: none / alive / exited
    exits,            \* completed mapdl.exit() calls of the current call
    ip,               \* index of the next command in the current block
    cmds,             \* solver commands issued by the current call, in order
    peak_temperature, \* local peak_temperature
    value_read,       \* values mapdl.get_value returned in the current call
    raised,           \* operations that raised in the current call
    ret,              \* records returned by the current call
    prev,             \* the previous completed call, as the harness saw it
    s_pc,             \* position of the single-instance script
    s_ip,             \* index of its next command in the current block
    s_vanes,          \* its vane_count
    s_cmds,           \* solver commands it issued, in order
    s_mapdl,          \* its solver process: none / alive / exited
    s_exits,          \* its completed mapdl.exit() calls
    elem_count,       \* its elem_count (-1 before line 135)
    s_fatal           \* it printed the FATAL message

vars == <<pc, calls, run_id, params, simulation_path, input_png_path,
          output_png_path, dirs, mapdl, exits, ip, cmds, peak_temperature,
          value_read, raised, ret, prev,
          s_pc, s_ip, s_vanes, s_cmds, s_mapdl, s_exits, elem_count, s_fatal>>

driverVars == <<pc, calls, run_id, params, simulation_path, input_png_path,
                output_png_path, dirs, mapdl, exits, ip, cmds,
                peak_temperature, value_read, raised, ret, prev>>

scriptVars == <<s_pc, s_ip, s_vanes, s_cmds, s_mapdl, s_exits, elem_count,
                s_fatal>>

---------------------------------------------------------------------------
(* Bounds *)

MaxCalls == 2
MaxVanes == 2
MaxElems == 2

---------------------------------------------------------------------------
(* Floating-point values: a number or not-a-number *)

Num(v) == [k |-> "num", v |-> v]
NaN == [k |-> "nan", v |-> 0]
isnan(x) == x.k = "nan"

---------------------------------------------------------------------------
(* Fixed parameters of the driver *)

disc_outer_radius == 160
braking_band_outer_radius == 155
braking_band_inner_radius == 100
hub_radius == 80
thermal_conductivity == 55
density == 7200
specific_heat == 460
convection_coeff == 120
ambient_temp == 22
initial_temp == 22
braking_time == 400
end_time == 1000
time_step == 25

BASE_RUN_DIR == "ansys_runs_timetest"
FINAL_IMAGE_DIR == "dataset_images_timetest"

(* The run identifiers and parameter sets the harness may pass. *)
RunIds == {-1, 1, 10001}
ParamSets == {[vane_count |-> n, vane_thickness_deg |-> 2500,
               heat_flux |-> 1900000] : n \in 1..MaxVanes}

(* What get_value may hand back: the driver takes whatever number the      *)
(* solver reports, unchecked.  A disc that the load did not measurably     *)
(* heat stays at its initial temperature; a heated one is above it.        *)
SolverValues == {Num(initial_temp), Num(initial_temp + 128)}

---------------------------------------------------------------------------
(* f"..._{run_id:04d}" and os.path.join *)

DigitChar(d) == <<"0", "1", "2", "3", "4", "5", "6", "7", "8", "9">>[d + 1]

RECURSIVE Digits(_)
Digits(n) == IF n < 10 THEN DigitChar(n)
             ELSE Digits(n \div 10) \o DigitChar(n % 10)

RECURSIVE Zeros(_)
Zeros(k) == IF k <= 0 THEN "" ELSE "0" \o Zeros(k - 1)

Format04d_trunc(n) ==
    LET m == (IF n < 0 THEN -n ELSE n) % 10000
    IN  Zeros(4 - Len(Digits(m))) \o Digits(m)

Format04d(n) ==
    LET sign == IF n < 0 THEN "-" ELSE ""
        digs == Digits(IF n < 0 THEN -n ELSE n)
    IN  sign \o Zeros(4 - Len(sign) - Len(digs)) \o digs

PathJoin(a, b) == a \o "/" \o b

SimulationDirName(id) == "run_" \o Format04d(id)
InputPngName(id) == "input_" \o Format04d(id) \o ".png"
OutputPngName(id) == "output_" \o Format04d(id) \o ".png"

---------------------------------------------------------------------------
(* The solver commands, in source order *)

Cmd(op, a, b) == [op |-> op, a |-> a, b |-> b]

PreCmds ==
    << Cmd("clear", 0, 0), Cmd("prep7", 0, 0),
       Cmd("mp,KXX", 1, thermal_conductivity), Cmd("mp,DENS", 1, density),
       Cmd("mp,C", 1, specific_heat), Cmd("et", 1, 55),
       Cmd("cyl4", disc_outer_radius, 0),
       Cmd("cyl4", braking_band_outer_radius, 0), Cmd("asba", 0, 0),
       Cmd("cyl4", braking_band_inner_radius, 0),
       Cmd("cyl4", hub_radius, 0), Cmd("asba", 0, 0) >>

VaneCmds(vane_count, vane_thickness_deg, i) ==
    LET angle_start == (360000 * i) \div vane_count
        angle_end == angle_start + vane_thickness_deg
    IN  << Cmd("k", braking_band_inner_radius, angle_start),
           Cmd("k", braking_band_outer_radius, angle_start),
           Cmd("k", braking_band_outer_radius, angle_end),
           Cmd("k", braking_band_inner_radius, angle_end),
           Cmd("l", 0, 0),
           Cmd("k", 0, 0), Cmd("larc", braking_band_outer_radius, 0),
           Cmd("l", 0, 0),
           Cmd("k", 0, 0), Cmd("larc", braking_band_inner_radius, 0),
           Cmd("al", 0, 0) >>

RECURSIVE VaneLoop(_, _, _)
VaneLoop(vane_count, vane_thickness_deg, i) ==
    IF i >= vane_count THEN << >>
    ELSE VaneCmds(vane_count, vane_thickness_deg, i)
         \o VaneLoop(vane_count, vane_thickness_deg, i + 1)

MeshCmds == << Cmd("aglue", 0, 0), Cmd("smrtsize", 4, 0), Cmd("amesh", 0, 0) >>

BuildCmds(p) ==
    PreCmds \o VaneLoop(p.vane_count, p.vane_thickness_deg, 0) \o MeshCmds

SelectCmds ==
    << Cmd("finish", 0, 0), Cmd("slashsolu", 0, 0), Cmd("antype", 0, 0),
       Cmd("tunif", initial_temp, 0),
       Cmd("lsel", 0, 0), Cmd("sfl", convection_coeff, ambient_temp),
       Cmd("allsel", 0, 0),
       Cmd("local", 11, 1), Cmd("csys", 11, 0),
       Cmd("nsel", braking_band_inner_radius, braking_band_outer_radius),
       Cmd("esln", 0, 0) >>

LoadCmds_noremove(heat_flux) ==
    << Cmd("sfe", 1, heat_flux),
       Cmd("csys", 0, 0), Cmd("allsel", 0, 0),
       Cmd("time", braking_time, 0),
       Cmd("nsubst", braking_time \div time_step, 0),
       Cmd("kbc", 0, 0), Cmd("outres", 0, 0),
       Cmd("solve", 0, 0),
       Cmd("csys", 11, 0),
       Cmd("nsel", braking_band_inner_radius, braking_band_outer_radius),
       Cmd("esln", 0, 0),
       Cmd("csys", 0, 0), Cmd("allsel", 0, 0),
       Cmd("time", end_time, 0),
       Cmd("nsubst", (end_time - braking_time) \div time_step, 0),
       Cmd("solve", 0, 0),
       Cmd("sfedele", 1, 0) >>

LoadCmds(heat_flux) ==
    << Cmd("sfe", 1, heat_flux),
       Cmd("csys", 0, 0), Cmd("allsel", 0, 0),
       Cmd("time", braking_time, 0),
       Cmd("nsubst", braking_time \div time_step, 0),
       Cmd("kbc", 0, 0), Cmd("outres", 0, 0),
       Cmd("solve", 0, 0),
       Cmd("csys", 11, 0),
       Cmd("nsel", braking_band_inner_radius, braking_band_outer_radius),
       Cmd("esln", 0, 0), Cmd("sfedele", 1, 0),
       Cmd("csys", 0, 0), Cmd("allsel", 0, 0),
       Cmd("time", end_time, 0),
       Cmd("nsubst", (end_time - braking_time) \div time_step, 0),
       Cmd("solve", 0, 0) >>

SoluCmds(p) == SelectCmds \o LoadCmds(p.heat_flux)

PostCmds == << Cmd("finish", 0, 0), Cmd("post1", 0, 0),
               Cmd("set", braking_time, 0) >>

---------------------------------------------------------------------------
(* Exception handling of run_single_simulation: the handler an operation   *)
(* that raises is caught by.                                               *)

Handler_noeplottry(op) ==
    CASE op = "launch" -> "return_launch_failed"
      [] op \in {"nsort", "get_value", "plot"} -> "continue_at_exit"
      [] OTHER -> "propagate"

Handler(op) ==
    CASE op = "launch" -> "return_launch_failed"
      [] op = "eplot" -> "pass"
      [] op \in {"nsort", "get_value", "plot"} -> "continue_at_exit"
      [] OTHER -> "propagate"

RenderOps == {"eplot", "plot"}

(* The two records the function builds. *)
LaunchFailedRecord_wrongstatus(ts) ==
    [peak_temp |-> NaN, status |-> "post_processing_failed", timestamp |-> ts]

LaunchFailedRecord(ts) ==
    [peak_temp |-> NaN, status |-> "launch_failed", timestamp |-> ts]

StatusOf_always(peak) == "success"

StatusOf(peak) ==
    IF ~isnan(peak) THEN "success" ELSE "post_processing_failed"

ResultRecord(id, peak, ts) ==
    [run_id |-> id, peak_temp |-> peak, status |-> StatusOf(peak),
     timestamp |-> ts]

---------------------------------------------------------------------------
Init ==
    /\ pc = "idle"
    /\ calls = 0
    /\ run_id = 0
    /\ params = [vane_count |-> 0, vane_thickness_deg |-> 0, heat_flux |-> 0]
    /\ simulation_path = ""
    /\ input_png_path = ""
    /\ output_png_path = ""
    /\ dirs = {}
    /\ mapdl = "none"
    /\ exits = 0
    /\ ip = 1
    /\ cmds = << >>
    /\ peak_temperature = NaN
    /\ value_read = << >>
    /\ raised = {}
    /\ ret = << >>
    /\ prev = << >>
    /\ s_pc = "start"
    /\ s_ip = 1
    /\ s_vanes = 0
    /\ s_cmds = << >>
    /\ s_mapdl = "none"
    /\ s_exits = 0
    /\ elem_count = -1
    /\ s_fatal = FALSE

---------------------------------------------------------------------------
(* run_single_simulation *)

(* An operation op raised: control goes where its handler sends it. *)
Raise(op) ==
    /\ raised' = raised \cup {op}
    /\ pc' = CASE Handler(op) = "pass" -> "solu"
               [] Handler(op) = "continue_at_exit" -> "exit"
               [] OTHER -> "raised"

(* time_test.py calls the function; lines 17-19. *)
StartRun(id, p) ==
    /\ pc = "idle"
    /\ calls < MaxCalls
    /\ calls' = calls + 1
    /\ run_id' = id
    /\ params' = p
    /\ simulation_path' = PathJoin(BASE_RUN_DIR, SimulationDirName(id))
    /\ input_png_path' = ""
    /\ output_png_path' = ""
    /\ mapdl' = "none"
    /\ exits' = 0
    /\ ip' = 1
    /\ cmds' = << >>
    /\ peak_temperature' = NaN
    /\ value_read' = << >>
    /\ raised' = {}
    /\ ret' = << >>
    /\ pc' = "mkdir"
    /\ UNCHANGED <<dirs, prev>>
    /\ UNCHANGED scriptVars

(* Lines 20-21. *)
MakeDir ==
    /\ pc = "mkdir"
    /\ \/ /\ simulation_path \in dirs
          /\ pc' = "launch"
          /\ UNCHANGED <<dirs, raised>>
       \/ /\ simulation_path \notin dirs
          /\ dirs' = dirs \cup {simulation_path}
          /\ pc' = "launch"
          /\ UNCHANGED raised
       \/ /\ simulation_path \notin dirs
          /\ Raise("makedirs")
          /\ UNCHANGED dirs
    /\ UNCHANGED <<calls, run_id, params, simulation_path, input_png_path,
                   output_png_path, mapdl, exits, ip, cmds, peak_temperature,
                   value_read, ret, prev>>
    /\ UNCHANGED scriptVars

(* Lines 24-30. *)
Launch ==
    /\ pc = "launch"
    /\ \/ /\ mapdl' = "alive"
          /\ pc' = "build"
          /\ ip' = 1
          /\ UNCHANGED <<raised, ret>>
       \/ /\ raised' = raised \cup {"launch"}
          /\ ret' = Append(ret, LaunchFailedRecord(calls))
          /\ pc' = "returned"
          /\ UNCHANGED <<mapdl, ip>>
    /\ UNCHANGED <<calls, run_id, params, simulation_path, input_png_path,
                   output_png_path, dirs, exits, cmds, peak_temperature,
                   value_read, prev>>
    /\ UNCHANGED scriptVars

(* One command of a block: it is issued, and completes or raises. *)
Block(here, block, next) ==
    /\ pc = here
    /\ LET c == block[ip] IN
       /\ cmds' = Append(cmds, c)
       /\ \/ /\ IF ip < Len(block)
                THEN ip' = ip + 1 /\ pc' = here
                ELSE ip' = 1 /\ pc' = next
             /\ UNCHANGED raised
          \/ /\ Raise(c.op)
             /\ UNCHANGED ip

(* Lines 48-67. *)
BuildModel ==
    /\ Block("build", BuildCmds(params), "eplot")
    /\ UNCHANGED <<calls, run_id, params, simulation_path, input_png_path,
                   output_png_path, dirs, mapdl, exits, peak_temperature,
                   value_read, ret, prev>>
    /\ UNCHANGED scriptVars

(* Lines 70-72. *)
Eplot ==
    /\ pc = "eplot"
    /\ input_png_path' = PathJoin(FINAL_IMAGE_DIR, InputPngName(run_id))
    /\ cmds' = Append(cmds, Cmd("eplot", 0, 0))
    /\ \/ pc' = "solu" /\ UNCHANGED raised
       \/ Raise("eplot")
    /\ UNCHANGED <<calls, run_id, params, simulation_path, output_png_path,
                   dirs, mapdl, exits, ip, peak_temperature, value_read, ret,
                   prev>>
    /\ UNCHANGED scriptVars

(* Lines 75-90. *)
Solution ==
    /\ Block("solu", SoluCmds(params), "post")
    /\ UNCHANGED <<calls, run_id, params, simulation_path, input_png_path,
                   output_png_path, dirs, mapdl, exits, peak_temperature,
                   value_read, ret, prev>>
    /\ UNCHANGED scriptVars

(* Lines 93-94. *)
LoadResult ==
    /\ Block("post", PostCmds, "nsort")
    /\ UNCHANGED <<calls, run_id, params, simulation_path, input_png_path,
                   output_png_path, dirs, mapdl, exits, peak_temperature,
                   value_read, ret, prev>>
    /\ UNCHANGED scriptVars

(* Line 96. *)
Nsort ==
    /\ pc = "nsort"
    /\ cmds' = Append(cmds, Cmd("nsort", 0, 0))
    /\ \/ pc' = "get" /\ UNCHANGED raised
       \/ Raise("nsort")
    /\ UNCHANGED <<calls, run_id, params, simulation_path, input_png_path,
                   output_png_path, dirs, mapdl, exits, ip, peak_temperature,
                   value_read, ret, prev>>
    /\ UNCHANGED scriptVars

(* Line 97. *)
GetValue ==
    /\ pc = "get"
    /\ cmds' = Append(cmds, Cmd("get_value", 0, 0))
    /\ \/ \E v \in SolverValues :
             /\ peak_temperature' = v
             /\ value_read' = Append(value_read, v)
             /\ pc' = "plot"
             /\ UNCHANGED raised
       \/ /\ Raise("get_value")
          /\ UNCHANGED <<peak_temperature, value_read>>
    /\ UNCHANGED <<calls, run_id, params, simulation_path, input_png_path,
                   output_png_path, dirs, mapdl, exits, ip, ret, prev>>
    /\ UNCHANGED scriptVars

(* Lines 99-100. *)
Plot ==
    /\ pc = "plot"
    /\ output_png_path' = PathJoin(FINAL_IMAGE_DIR, OutputPngName(run_id))
    /\ cmds' = Append(cmds, Cmd("plot", 0, 0))
    /\ \/ pc' = "exit" /\ UNCHANGED raised
       \/ Raise("plot")
    /\ UNCHANGED <<calls, run_id, params, simulation_path, input_png_path,
                   dirs, mapdl, exits, ip, peak_temperature, value_read, ret,
                   prev>>
    /\ UNCHANGED scriptVars

(* Line 105. *)
Exit ==
    /\ pc = "exit"
    /\ cmds' = Append(cmds, Cmd("exit", 0, 0))
    /\ \/ /\ mapdl' = "exited"
          /\ exits' = exits + 1
          /\ pc' = "return"
          /\ UNCHANGED raised
       \/ /\ Raise("exit")
          /\ UNCHANGED <<mapdl, exits>>
    /\ UNCHANGED <<calls, run_id, params, simulation_path, input_png_path,
                   output_png_path, dirs, ip, peak_temperature, value_read,
                   ret, prev>>
    /\ UNCHANGED scriptVars

(* Lines 106-113. *)
Return ==
    /\ pc = "return"
    /\ ret' = Append(ret, ResultRecord(run_id, peak_temperature, calls))
    /\ pc' = "returned"
    /\ UNCHANGED <<calls, run_id, params, simulation_path, input_png_path,
                   output_png_path, dirs, mapdl, exits, ip, cmds,
                   peak_temperature, value_read, raised, prev>>
    /\ UNCHANGED scriptVars

(* time_test.py lines 52-70: the harness reads the record it got back. *)
Report ==
    /\ pc = "returned"
    /\ prev' = << [run_id |-> run_id, params |-> params, raised |-> raised,
                   value_read |-> value_read,
                   simulation_path |-> simulation_path,
                   input_png_path |-> input_png_path,
                   output_png_path |-> output_png_path,
                   status |-> ret[1].status,
                   peak_temp |-> ret[1].peak_temp] >>
    /\ pc' = "idle"
    /\ UNCHANGED <<calls, run_id, params, simulation_path, input_png_path,
                   output_png_path, dirs, mapdl, exits, ip, cmds,
                   peak_temperature, value_read, raised, ret>>
    /\ UNCHANGED scriptVars

Next ==
    \/ \E id \in RunIds, p \in ParamSets : StartRun(id, p)
    \/ MakeDir
    \/ Launch
    \/ BuildModel
    \/ Eplot
    \/ Solution
    \/ LoadResult
    \/ Nsort
    \/ GetValue
    \/ Plot
    \/ Exit
    \/ Return
    \/ Report

Spec == Init /\ [][Next]_vars


---------------------------------------------------------------------------
(* The single-instance script "ansys_test_run_vanes - Copy.py".  It issues *)
(* the same build, selection and load commands as the driver, with its own *)
(* constants.  The source fixes vane_count = 48; the loop is run here for  *)
(* 1..MaxVanes vanes.                                                      *)

script_vane_thickness_deg == 2000
script_heat_flux == 9000000

ScriptParams(n) == [vane_count |-> n,
                    vane_thickness_deg |-> script_vane_thickness_deg,
                    heat_flux |-> script_heat_flux]

(* Lines 15-31: the run directory and the launch; exit() on a failed launch. *)
S_Launch ==
    /\ s_pc = "start"
    /\ \/ \E n \in 1..MaxVanes :
             /\ s_mapdl' = "alive"
             /\ s_vanes' = n
             /\ s_pc' = "build"
       \/ /\ s_pc' = "ended"
          /\ UNCHANGED <<s_mapdl, s_vanes>>
    /\ UNCHANGED <<s_ip, s_cmds, s_exits, elem_count, s_fatal>>
    /\ UNCHANGED driverVars

(* One command of a block of the script: no handler, a raise ends the script. *)
S_Block(here, block, next) ==
    /\ s_pc = here
    /\ s_cmds' = Append(s_cmds, block[s_ip])
    /\ \/ IF s_ip < Len(block)
          THEN s_ip' = s_ip + 1 /\ s_pc' = here
          ELSE s_ip' = 1 /\ s_pc' = next
       \/ s_pc' = "crashed" /\ UNCHANGED s_ip

(* Lines 57-100. *)
S_BuildModel ==
    /\ S_Block("build", BuildCmds(ScriptParams(s_vanes)), "eplot")
    /\ UNCHANGED <<s_vanes, s_mapdl, s_exits, elem_count, s_fatal>>
    /\ UNCHANGED driverVars

(* Lines 104-109: a failed plot is reported and the script goes on. *)
S_Eplot ==
    /\ s_pc = "eplot"
    /\ s_cmds' = Append(s_cmds, Cmd("eplot", 0, 0))
    /\ s_pc' = "select"
    /\ UNCHANGED <<s_ip, s_vanes, s_mapdl, s_exits, elem_count, s_fatal>>
    /\ UNCHANGED driverVars

(* Lines 114-132. *)
S_Select ==
    /\ S_Block("select", SelectCmds, "count")
    /\ UNCHANGED <<s_vanes, s_mapdl, s_exits, elem_count, s_fatal>>
    /\ UNCHANGED driverVars

(* Lines 135-139: after the FATAL message and mapdl.exit() control falls   *)
(* through to the statement after the if.                                  *)
S_ElemCount ==
    /\ s_pc = "count"
    /\ \/ \E n \in 0..MaxElems :
             /\ elem_count' = n
             /\ IF n = 0
                THEN /\ s_fatal' = TRUE
                     /\ s_cmds' = s_cmds \o << Cmd("get_value", 0, 0),
                                               Cmd("exit", 0, 0) >>
                     /\ \/ /\ s_mapdl' = "exited"
                           /\ s_exits' = s_exits + 1
                           /\ s_pc' = "load"
                        \/ /\ s_pc' = "crashed"
                           /\ UNCHANGED <<s_mapdl, s_exits>>
                ELSE /\ s_cmds' = Append(s_cmds, Cmd("get_value", 0, 0))
                     /\ s_pc' = "load"
                     /\ UNCHANGED <<s_mapdl, s_exits, s_fatal>>
       \/ /\ s_cmds' = Append(s_cmds, Cmd("get_value", 0, 0))
          /\ s_pc' = "crashed"
          /\ UNCHANGED <<elem_count, s_mapdl, s_exits, s_fatal>>
    /\ UNCHANGED <<s_ip, s_vanes>>
    /\ UNCHANGED driverVars

(* Lines 142-171. *)
S_Load ==
    /\ S_Block("load", LoadCmds(script_heat_flux), "post")
    /\ UNCHANGED <<s_vanes, s_mapdl, s_exits, elem_count, s_fatal>>
    /\ UNCHANGED driverVars

(* Lines 177-180. *)
S_LoadResult ==
    /\ S_Block("post", PostCmds, "plot")
    /\ UNCHANGED <<s_vanes, s_mapdl, s_exits, elem_count, s_fatal>>
    /\ UNCHANGED driverVars

(* Lines 183-192: a failed plot is reported and the script goes on. *)
S_Plot ==
    /\ s_pc = "plot"
    /\ s_cmds' = Append(s_cmds, Cmd("plot", 0, 0))
    /\ s_pc' = "exit"
    /\ UNCHANGED <<s_ip, s_vanes, s_mapdl, s_exits, elem_count, s_fatal>>
    /\ UNCHANGED driverVars

(* Lines 196-197. *)
S_Exit ==
    /\ s_pc = "exit"
    /\ s_cmds' = Append(s_cmds, Cmd("exit", 0, 0))
    /\ \/ /\ s_mapdl' = "exited"
          /\ s_exits' = s_exits + 1
          /\ s_pc' = "ended"
       \/ /\ s_pc' = "crashed"
          /\ UNCHANGED <<s_mapdl, s_exits>>
    /\ UNCHANGED <<s_ip, s_vanes, elem_count, s_fatal>>
    /\ UNCHANGED driverVars

NextScript ==
    \/ S_Launch
    \/ S_BuildModel
    \/ S_Eplot
    \/ S_Select
    \/ S_ElemCount
    \/ S_Load
    \/ S_LoadResult
    \/ S_Plot
    \/ S_Exit

SpecScript == Init /\ [][NextScript]_vars


---------------------------------------------------------------------------
(* Reading a command trace *)

Positions(tr, op) == {i \in 1..Len(tr) : tr[i].op = op}

Max(S) == CHOOSE x \in S : \A y \in S : y <= x

LastBefore(tr, op, p) ==
    LET S == {i \in Positions(tr, op) : i < p}
    IN  IF S = {} THEN 0 ELSE Max(S)

(* The element selection in force at position p: made in the local frame   *)
(* 11, on the braking band, attached elements taken, nothing reselected.   *)
BandSelectedAt(tr, p) ==
    LET c == LastBefore(tr, "csys", p)
        n == LastBefore(tr, "nsel", p)
        e == LastBefore(tr, "esln", p)
    IN  /\ 0 < c /\ c < n /\ n < e
        /\ tr[c].a = 11
        /\ tr[n].a = braking_band_inner_radius
        /\ tr[n].b = braking_band_outer_radius
        /\ LastBefore(tr, "allsel", p) < c
        /\ LastBefore(tr, "local", p) > 0

PostOps == {"set", "nsort", "get_value", "plot"}
Statuses == {"success", "launch_failed", "post_processing_failed"}
Ended == pc \in {"returned", "raised"}

---------------------------------------------------------------------------
(* C1: run_single_simulation never raises: whichever step fails, no        *)
(* exception propagates to the caller.                                     *)
C1_NeverRaises == pc # "raised"

(* C2: every returned record has the four fields run_id, peak_temp, status *)
(* and timestamp, run_id is the argument, status is one of the three       *)
(* values, and exactly one record is returned.                             *)
C2_RecordComplete ==
    pc = "returned" =>
        /\ Len(ret) = 1
        /\ DOMAIN ret[1] = {"run_id", "peak_temp", "status", "timestamp"}
        /\ ret[1].run_id = run_id
        /\ ret[1].status \in Statuses

(* C3: when the launch fails the call returns at once with status          *)
(* launch_failed and peak_temp not-a-number; no solver command was issued, *)
(* no image path was rendered to and no shutdown was attempted.            *)
C3_LaunchFailure ==
    "launch" \in raised =>
        /\ pc \in {"returned", "idle"}
        /\ Len(ret) = 1
        /\ ret[1].status = "launch_failed"
        /\ isnan(ret[1].peak_temp)
        /\ cmds = << >>
        /\ exits = 0
        /\ mapdl = "none"
        /\ input_png_path = "" /\ output_png_path = ""

C3_Witness ==
    /\ pc = "returned"
    /\ "launch" \in raised
    /\ run_id = 10001
    /\ prev # << >>

(* C4: when a post-processing operation raises (loading the result set,    *)
(* the sort query, reading the maximum, plotting the temperature field)    *)
(* and nothing else fails, a record is returned with status                *)
(* post_processing_failed and peak_temp not-a-number.                      *)
C4_PostProcessingFailure ==
    (/\ Ended
     /\ raised \cap PostOps # {}
     /\ raised \subseteq PostOps \cup {"eplot"}) =>
        /\ pc = "returned"
        /\ ret[1].status = "post_processing_failed"
        /\ isnan(ret[1].peak_temp)

(* C5: once the solver was launched, every end of the call, by return or   *)
(* by exception, comes after exactly one shutdown of the solver.           *)
C5_ShutdownOnEveryExit ==
    (Ended /\ "launch" \notin raised /\ "makedirs" \notin raised) =>
        /\ exits = 1
        /\ mapdl = "exited"
        /\ Cardinality(Positions(cmds, "exit")) = 1

(* C6: a rendering failure (eplot, plot_nodal_temperature) never changes   *)
(* the outcome: it never propagates, the run goes on to both solves and to *)
(* the shutdown, and two calls that differ only in rendering failures      *)
(* return the same status and peak_temp.                                   *)
SameButRendering(q) ==
    /\ q.run_id = run_id
    /\ q.params = params
    /\ q.value_read = value_read
    /\ q.raised \ RenderOps = raised \ RenderOps

C6_RenderingNeverAltersStatus ==
    /\ pc = "raised" => raised \ RenderOps # {}
    /\ (pc = "returned" /\ raised # {} /\ raised \subseteq RenderOps) =>
          /\ Cardinality(Positions(cmds, "solve")) = 2
          /\ exits = 1
    /\ (pc = "returned" /\ prev # << >> /\ SameButRendering(prev[1])) =>
          /\ ret[1].status = prev[1].status
          /\ ret[1].peak_temp = prev[1].peak_temp

C6_Witness ==
    /\ pc = "returned"
    /\ prev # << >>
    /\ SameButRendering(prev[1])
    /\ prev[1].raised = {}
    /\ raised = RenderOps
    /\ ret[1].status = "success"

(* C7: the paths derived from run_id are deterministic and collision-free: *)
(* two calls with different run_ids share none of working directory, input *)
(* image and output image; two calls with the same run_id get the same.    *)
PathsOf(dir, inp, out) == {dir, inp, out} \ {""}

C7_PathsInjective ==
    (prev # << >> /\ pc # "idle") =>
        LET q == prev[1] IN
        /\ q.run_id # run_id =>
              PathsOf(q.simulation_path, q.input_png_path, q.output_png_path)
              \cap PathsOf(simulation_path, input_png_path, output_png_path)
              = {}
        /\ q.run_id = run_id =>
              /\ q.simulation_path = simulation_path
              /\ input_png_path \in {"", q.input_png_path}
                    \/ q.input_png_path = ""
              /\ output_png_path \in {"", q.output_png_path}
                    \/ q.output_png_path = ""

C7_Witness ==
    /\ pc = "returned"
    /\ prev # << >>
    /\ prev[1].run_id = 1 /\ run_id = 10001
    /\ prev[1].output_png_path # "" /\ output_png_path # ""
    /\ prev[1].input_png_path # "" /\ input_png_path # ""

(* C8, as stated: when nothing raises the status is success and peak_temp  *)
(* is a finite number above the ambient temperature.                       *)
C8_SuccessIsPlausible ==
    (pc = "returned" /\ raised = {}) =>
        /\ ret[1].status = "success"
        /\ ret[1].peak_temp.k = "num"
        /\ ret[1].peak_temp.v > ambient_temp

(* C8, amended: when nothing raises and the value read from the solver is  *)
(* not not-a-number, the status is success and peak_temp is that value;    *)
(* and the status is success only when peak_temp is the value read from    *)
(* the solver and is not not-a-number.                                     *)
C8_SuccessIsValueRead ==
    pc = "returned" =>
        /\ (raised = {} /\ ~isnan(value_read[1])) =>
              /\ ret[1].status = "success"
              /\ ret[1].peak_temp = value_read[1]
        /\ ret[1].status = "success" =>
              /\ Len(value_read) = 1
              /\ ret[1].peak_temp = value_read[1]
              /\ ~isnan(ret[1].peak_temp)

C8_Witness ==
    /\ pc = "returned"
    /\ raised = {}
    /\ value_read = << Num(initial_temp + 128) >>
    /\ ret[1].status = "success"

(* C9: in the single-instance script, once the element count is 0 and the  *)
(* FATAL message is out, the shutdown is the last solver command: nothing  *)
(* is issued after it, and there is no second shutdown.                    *)
C9_AbortsOnEmptySelection ==
    s_fatal =>
        /\ s_cmds[Len(s_cmds)].op = "exit"
        /\ Cardinality(Positions(s_cmds, "exit")) = 1

(* C10: in a run that launches and in which nothing but rendering fails,   *)
(* the heat flux is applied to the braking-band selection before the first *)
(* solve, removed from the same selection between the two solves, there    *)
(* are exactly two solves, the peak is read after the second solve from    *)
(* the result set at time = braking_time, and the shutdown comes after the *)
(* extraction and before the return.                                       *)
C10_CommandOrder ==
    (pc = "returned" /\ raised \subseteq RenderOps) =>
        LET solves == Positions(cmds, "solve")
            s1 == CHOOSE i \in solves : \A j \in solves : i <= j
            s2 == Max(solves)
            f == Max(Positions(cmds, "sfe"))
            d == Max(Positions(cmds, "sfedele"))
            t == Max(Positions(cmds, "set"))
            g == Max(Positions(cmds, "get_value"))
            x == Max(Positions(cmds, "exit"))
        IN  /\ Cardinality(solves) = 2
            /\ Cardinality(Positions(cmds, "sfe")) = 1
            /\ Cardinality(Positions(cmds, "sfedele")) = 1
            /\ Cardinality(Positions(cmds, "set")) = 1
            /\ Cardinality(Positions(cmds, "get_value")) = 1
            /\ Cardinality(Positions(cmds, "exit")) = 1
            /\ f < s1 /\ BandSelectedAt(cmds, f)
            /\ cmds[f].b = params.heat_flux
            /\ s1 < d /\ d < s2 /\ BandSelectedAt(cmds, d)
            /\ cmds[LastBefore(cmds, "time", s1)].a = braking_time
            /\ s2 < t /\ t < g
            /\ cmds[t].a = braking_time
            /\ g < x /\ x = Len(cmds)
            /\ exits = 1 /\ Len(ret) = 1

C10_Witness ==
    /\ pc = "returned"
    /\ raised = {}
    /\ ret[1].status = "success"
    /\ params.vane_count = MaxVanes

====
